---- MODULE Spec2Model ----
(***************************************************************************)
(* Model of vger-rs' texture atlas (src/atlas.rs) and glyph cache          *)
(* (src/glyphs.rs).                                                        *)
(*                                                                         *)
(* Atlas owns a rect_packer::Packer; the packer is the skyline packer of   *)
(* the rect_packer crate (Packer wrapping DensePacker), modelled here step *)
(* by step because the placement of rects is decided there.                *)
(***************************************************************************)
EXTENDS Integers, Sequences, FiniteSets, TLC

(***************************************************************************)
(* Program constants.                                                      *)
(***************************************************************************)
\* Atlas::RECT_PADDING
RECT_PADDING == 6

\* GlyphCache::new: let size = 1024
InitialSize == 1024

(***************************************************************************)
(* Option<T>: None is the empty tuple, Some(v) the one-element tuple.      *)
(***************************************************************************)
None == <<>>

Some(v) == <<v>>

IsSome(o) == o # <<>>

Unwrap(o) == o[1]

Max(a, b) == IF a >= b THEN a ELSE b

EmptyMap == [k \in {} |-> 0]

MapPut(m, k, v) == [j \in (DOMAIN m) \cup {k} |-> IF j = k THEN v ELSE m[j]]

(***************************************************************************)
(* rect_packer::Rect                                                       *)
(***************************************************************************)
Rect(x, y, w, h) == [x |-> x, y |-> y, width |-> w, height |-> h]

RectRight(r) == r.x + r.width

RectBottom(r) == r.y + r.height

\* Rect::contains
RectContains(a, b) ==
    /\ a.x <= b.x
    /\ RectRight(a) >= RectRight(b)
    /\ a.y <= b.y
    /\ RectBottom(a) >= RectBottom(b)

(***************************************************************************)
(* rect_packer::DensePacker (skyline packing)                              *)
(* A dense packer is [width, height, skylines], skylines a sequence of     *)
(* [left, y, width] ordered by left.                                       *)
(***************************************************************************)
Skyline(l, y, w) == [left |-> l, y |-> y, width |-> w]

SkylineRight(s) == s.left + s.width - 1

DensePackerNew(width, height) ==
    [width    |-> Max(0, width),
     height   |-> Max(0, height),
     skylines |-> << Skyline(0, 0, Max(0, width)) >>]

\* DensePacker::can_put: the rect of size w x h whose left edge is skyline
\* i's left edge, resting on the skylines it spans; None when it leaves the
\* packer's area.
RECURSIVE can_put_loop(_, _, _, _)
can_put_loop(dp, i, rect, width_left) ==
    LET r == [rect EXCEPT !.y = Max(rect.y, dp.skylines[i].y)]
    IN  IF ~RectContains(Rect(0, 0, dp.width, dp.height), r) THEN None
        ELSE IF dp.skylines[i].width >= width_left THEN Some(r)
        ELSE can_put_loop(dp, i + 1, r, width_left - dp.skylines[i].width)

can_put(dp, i, w, h) ==
    can_put_loop(dp, i, Rect(dp.skylines[i].left, 0, w, h), w)

\* DensePacker::find_skyline without rotation: the candidate with the
\* smallest bottom, ties broken by the narrowest skyline, first one wins.
\* best is None or Some([index, rect, bottom, width]).
\* One round of the loop: r is can_put for skyline i of width skw.
Better(i, skw, r, best) ==
    IF /\ IsSome(r)
       /\ \/ ~IsSome(best)
          \/ RectBottom(Unwrap(r)) < Unwrap(best).bottom
          \/ /\ RectBottom(Unwrap(r)) = Unwrap(best).bottom
             /\ skw < Unwrap(best).width
    THEN Some([index  |-> i,
               rect   |-> Unwrap(r),
               bottom |-> RectBottom(Unwrap(r)),
               width  |-> skw])
    ELSE best

RECURSIVE find_skyline_loop(_, _, _, _, _)
find_skyline_loop(dp, i, w, h, best) ==
    IF i > Len(dp.skylines) THEN best
    ELSE find_skyline_loop(dp, i + 1, w, h,
             Better(i, dp.skylines[i].width, can_put(dp, i, w, h), best))

find_skyline(dp, w, h) == find_skyline_loop(dp, 1, w, h, None)

RemoveAt(s, i) == SubSeq(s, 1, i - 1) \o SubSeq(s, i + 1, Len(s))

InsertAt(s, i, e) == SubSeq(s, 1, i - 1) \o <<e>> \o SubSeq(s, i, Len(s))

\* DensePacker::split: insert the new skyline at index and shrink or drop
\* the skylines it covers.
RECURSIVE split_loop(_, _)
split_loop(sk, i) ==
    IF i > Len(sk) THEN sk
    ELSE IF sk[i].left <= SkylineRight(sk[i - 1])
         THEN LET shrink == SkylineRight(sk[i - 1]) - sk[i].left + 1
              IN  IF sk[i].width <= shrink
                  THEN split_loop(RemoveAt(sk, i), i)
                  ELSE [sk EXCEPT ![i] = Skyline(sk[i].left + shrink, sk[i].y,
                                                 sk[i].width - shrink)]
         ELSE sk

split(sk, index, rect) ==
    split_loop(InsertAt(sk, index, Skyline(rect.x, RectBottom(rect), rect.width)),
               index + 1)

\* DensePacker::merge: join neighbouring skylines of equal height.
RECURSIVE merge_loop(_, _)
merge_loop(sk, i) ==
    IF i > Len(sk) THEN sk
    ELSE IF sk[i - 1].y = sk[i].y
         THEN merge_loop(RemoveAt([sk EXCEPT ![i - 1].width = sk[i - 1].width + sk[i].width], i), i)
         ELSE merge_loop(sk, i + 1)

merge(sk) == merge_loop(sk, 2)

\* DensePacker::pack once find_skyline has answered f: [packer, rect]
DensePackerPlace(dp, f) ==
    IF IsSome(f)
    THEN [packer |-> [dp EXCEPT !.skylines =
                         merge(split(dp.skylines, Unwrap(f).index, Unwrap(f).rect))],
          rect   |-> Some(Unwrap(f).rect)]
    ELSE [packer |-> dp, rect |-> None]

\* DensePacker::pack: [packer, rect]
DensePackerPack(dp, w, h) ==
    IF w <= 0 \/ h <= 0 THEN [packer |-> dp, rect |-> None]
    ELSE DensePackerPlace(dp, find_skyline(dp, w, h))

(***************************************************************************)
(* rect_packer::Packer: a DensePacker over the area inside the border,     *)
(* packing rects enlarged by the rectangle padding.                        *)
(***************************************************************************)
PackerNew(config) ==
    [config |-> config,
     packer |-> DensePackerNew(
                    config.width + config.rectangle_padding - 2 * config.border_padding,
                    config.height + config.rectangle_padding - 2 * config.border_padding)]

\* The padded rect r of the dense packer as the caller's rect.
Unpad(config, r) ==
    Rect(r.x + config.border_padding,
         r.y + config.border_padding,
         r.width - config.rectangle_padding,
         r.height - config.rectangle_padding)

\* Packer::pack once the dense packer has answered d: [packer, rect]
PackerPlace(p, d) ==
    IF IsSome(d.rect)
    THEN [packer |-> [p EXCEPT !.packer = d.packer],
          rect   |-> Some(Unpad(p.config, Unwrap(d.rect)))]
    ELSE [packer |-> p, rect |-> None]

\* Packer::pack: [packer, rect]
PackerPack(p, width, height) ==
    IF width <= 0 \/ height <= 0 THEN [packer |-> p, rect |-> None]
    ELSE PackerPlace(p, DensePackerPack(p.packer,
                                        width + p.config.rectangle_padding,
                                        height + p.config.rectangle_padding))

(***************************************************************************)
(* Atlas (src/atlas.rs).  An atlas is the record of the struct's fields.   *)
(* Pixel data handed to add_region is kept as the opaque value the caller  *)
(* passed.                                                                 *)
(***************************************************************************)
AtlasContent == {"Mask", "Color"}

\* wgpu::COPY_BYTES_PER_ROW_ALIGNMENT
COPY_BYTES_PER_ROW_ALIGNMENT == 256

\* Variant of get_packer_config: width and height exchanged.
get_packer_config_swapped(width, height) ==
    [width             |-> height,
     height            |-> width,
     border_padding    |-> RECT_PADDING,
     rectangle_padding |-> RECT_PADDING]

get_packer_config(width, height) ==
    [width             |-> width,
     height            |-> height,
     border_padding    |-> RECT_PADDING,
     rectangle_padding |-> RECT_PADDING]

\* The texture is known by its descriptor; a new texture is a new allocation.
get_atlas_texture(content, width, height) ==
    [width  |-> width,
     height |-> height,
     format |-> IF content = "Mask" THEN "R8Unorm" ELSE "Rgba8Unorm"]

Atlas_new(content, width, height) ==
    [max_seen      |-> 0,
     width         |-> width,
     height        |-> height,
     packer        |-> PackerNew(get_packer_config(width, height)),
     new_data      |-> <<>>,
     atlas_texture |-> get_atlas_texture(content, width, height),
     area_used     |-> 0,
     did_clear     |-> FALSE,
     content       |-> content]

\* Variant of Atlas::clear: max_seen starts over.
Atlas_clear_resetsMaxSeen(a) ==
    [a EXCEPT !.packer = PackerNew(get_packer_config(a.width, a.height)),
              !.area_used = 0, !.new_data = <<>>, !.did_clear = TRUE,
              !.max_seen = 0]

\* Variant of Atlas::clear: the packer is kept.
Atlas_clear_keepsPacker(a) ==
    [a EXCEPT !.area_used = 0,
              !.new_data  = <<>>,
              !.did_clear = TRUE]

\* Variant of Atlas::clear: area_used is kept.
Atlas_clear_keepsArea(a) ==
    [a EXCEPT !.packer    = PackerNew(get_packer_config(a.width, a.height)),
              !.new_data  = <<>>,
              !.did_clear = TRUE]

Atlas_clear(a) ==
    [a EXCEPT !.packer    = PackerNew(get_packer_config(a.width, a.height)),
              !.area_used = 0,
              !.new_data  = <<>>,
              !.did_clear = TRUE]

Atlas_resize(a, width, height) ==
    Atlas_clear([a EXCEPT !.width         = width,
                          !.height        = height,
                          !.atlas_texture = get_atlas_texture(a.content, width, height)])

\* Atlas::add_region once max_seen is recorded (a1) and the packer has
\* answered p: [atlas, rect]
Packed(a1, data, p) ==
    IF IsSome(p.rect)
    THEN [atlas |-> [a1 EXCEPT
              !.packer    = p.packer,
              !.new_data  = Append(a1.new_data, [rect |-> Unwrap(p.rect), data |-> data]),
              !.area_used = a1.area_used
                  + (Unwrap(p.rect).width + RECT_PADDING)
                      * (Unwrap(p.rect).height + RECT_PADDING)],
          rect  |-> Some(Unwrap(p.rect))]
    ELSE [atlas |-> a1, rect |-> None]

\* Variant of Atlas::add_region: the requested area is counted before the
\* packer is asked.
Atlas_add_region_countsFirst(a, data, width, height) ==
    LET max_seen == Max(width, height)
        a1 == IF max_seen > a.max_seen THEN [a EXCEPT !.max_seen = max_seen] ELSE a
        r  == Packed(a1, data, PackerPack(a.packer, width, height))
    IN  [atlas |-> [r.atlas EXCEPT !.area_used = a.area_used
                        + (width + RECT_PADDING) * (height + RECT_PADDING)],
         rect  |-> r.rect]

\* Atlas::add_region: [atlas, rect]
Atlas_add_region(a, data, width, height) ==
    LET max_seen == Max(width, height)
        a1 == IF max_seen > a.max_seen THEN [a EXCEPT !.max_seen = max_seen] ELSE a
    IN  Packed(a1, data, PackerPack(a.packer, width, height))

\* Row length in bytes rounded up to the copy alignment (update, both passes).
(***************************************************************************)
(* Bounds and inputs.                                                      *)
(***************************************************************************)
\* Number of operations on the stand-alone atlas / on the cache in one run.
MaxAtlasOps == 5

MaxOps == 5

\* Stand-alone atlas: sizes it is constructed with or resized to, and the
\* widths and heights of the regions added.
AtlasSizes == {<<40, 30>>, <<64, 64>>}

RegionDims == {0, 5, 12}

\* Cache keys and the values the rasterizer callbacks yield.
ImageHashes == {"i1", "i2"}

Images ==
    {[width |-> 500, height |-> 500, data |-> "rgba500"],
     [width |-> 512, height |-> 512, data |-> "rgba512"]}

SvgHashes == {"s1"}

SvgSizes == {<<500, 500>>, <<600, 20>>}

GlyphKeys ==
    {<<1, 36, 16, <<"Zero", "Zero">>>>,
     <<1, 36, 16, <<"One", "Zero">>>>,
     <<1, 3, 16, <<"Zero", "Zero">>>>}

SwashImages ==
    {[content |-> "Mask", data |-> "a500",
      placement |-> [width |-> 500, height |-> 500, left |-> 1, top |-> 14]],
     [content |-> "Mask", data |-> "empty",
      placement |-> [width |-> 0, height |-> 0, left |-> 0, top |-> 0]],
     [content |-> "SubpixelMask", data |-> "sub500",
      placement |-> [width |-> 500, height |-> 500, left |-> 0, top |-> 12]],
     [content |-> "Color", data |-> "rgba700",
      placement |-> [width |-> 20, height |-> 700, left |-> -2, top |-> 9]]}

\* The heights and the row lengths in bytes (1 or 4 bytes per pixel) of the
\* regions these inputs ask for.
UploadHeights ==
    (RegionDims \cup {im.height : im \in Images} \cup {z[2] : z \in SvgSizes}
         \cup {im.placement.height : im \in SwashImages}) \ {0}

UploadRowBytes ==
    {w * pixels : w \in (RegionDims \cup {im.width : im \in Images}
                             \cup {z[1] : z \in SvgSizes}
                             \cup {im.placement.width : im \in SwashImages}) \ {0},
                  pixels \in {1, 4}}

\* Variant of the row length: a row that is already aligned gets a further
\* align bytes.
PaddedWidth_alwaysPads(width) ==
    LET align   == COPY_BYTES_PER_ROW_ALIGNMENT
        padding == align - (width % align)
    IN  width + padding

\* padded_width = width + (align - width % align) % align
PaddedWidth(width) ==
    LET align   == COPY_BYTES_PER_ROW_ALIGNMENT
        padding == (align - (width % align)) % align
    IN  width + padding

\* The zero-fill pass of Atlas::update: one copy of a zeroed buffer over the
\* whole texture.  The row length is computed from self.width * 4.
ZeroFillCommand(a) ==
    LET padded_width == PaddedWidth(a.width * 4)
    IN  [kind          |-> "zero_fill",
         origin        |-> [x |-> 0, y |-> 0],
         extent        |-> [width |-> a.width, height |-> a.height],
         bytes_per_row |-> padded_width,
         buffer_len    |-> padded_width * a.height,
         data          |-> None]

\* `while padded_data.len() % align != 0 { push(0) }` from length len: the
\* number of zeros pushed.
ZerosPushed(len) ==
    (COPY_BYTES_PER_ROW_ALIGNMENT - (len % COPY_BYTES_PER_ROW_ALIGNMENT))
        % COPY_BYTES_PER_ROW_ALIGNMENT

\* One pass of the row loop of Atlas::update: width source bytes are pushed,
\* then zeros while the length is not a multiple of the alignment.
\* b summarises the buffer so far:
\*   len        padded_data.len()
\*   i          source bytes read (they are read in order, from 0)
\*   row_lens   the lengths by which the rows advanced the buffer
\*   zero_runs  the numbers of zero bytes pushed after the rows
pad_row(width, b) ==
    [len       |-> b.len + width + ZerosPushed(b.len + width),
     i         |-> b.i + width,
     row_lens  |-> b.row_lens \cup {width + ZerosPushed(b.len + width)},
     zero_runs |-> b.zero_runs \cup {ZerosPushed(b.len + width)}]

\* The row loop `for _ in 0..height` run for rows passes from buffer b.  The
\* passes are taken in order; the range is halved, and the buffer after the
\* first half named m, only to bound the depth of the evaluation.
RECURSIVE pad_rows(_, _, _)
pad_rows(rows, width, b) ==
    IF rows <= 0 THEN b
    ELSE IF rows = 1 THEN pad_row(width, b)
    ELSE CHOOSE r \in {pad_rows(rows - (rows \div 2), width, m) :
                           m \in {pad_rows(rows \div 2, width, b)}} : TRUE

\* The buffers the loop builds, by number of rows and row length in bytes.
UploadBuffers ==
    [rows \in UploadHeights, width \in UploadRowBytes |->
         pad_rows(rows, width, [len |-> 0, i |-> 0, row_lens |-> {}, zero_runs |-> {}])]

\* The copy recorded for pending upload d once its buffer b is built.
Uploaded(d, padded_width, b) ==
    [kind          |-> "upload",
     origin        |-> [x |-> d.rect.x, y |-> d.rect.y],
     extent        |-> [width |-> d.rect.width, height |-> d.rect.height],
     bytes_per_row |-> padded_width,
     buffer_len    |-> b.len,
     buffer        |-> b,
     assert_ok     |-> b.len = padded_width * d.rect.height,
     data          |-> Some(d.data)]

\* The per-region pass of Atlas::update for one pending upload.
UploadCommand(a, d) ==
    Uploaded(d, PaddedWidth(d.rect.width * (IF a.content = "Mask" THEN 1 ELSE 4)),
             UploadBuffers[d.rect.height,
                           d.rect.width * (IF a.content = "Mask" THEN 1 ELSE 4)])

\* Variant of Atlas::update: the pending-clear flag stays as it was.
Atlas_update_keepsFlag(a) ==
    LET fill    == IF a.did_clear THEN << ZeroFillCommand(a) >> ELSE <<>>
        uploads == [i \in 1..Len(a.new_data) |-> UploadCommand(a, a.new_data[i])]
    IN  [atlas |-> [a EXCEPT !.new_data = <<>>],
         cmds  |-> fill \o uploads]

\* Variant of Atlas::update: the zero-fill is recorded after the uploads.
Atlas_update_uploadsFirst(a) ==
    LET fill    == IF a.did_clear THEN << ZeroFillCommand(a) >> ELSE <<>>
        uploads == [i \in 1..Len(a.new_data) |-> UploadCommand(a, a.new_data[i])]
    IN  [atlas |-> [a EXCEPT !.did_clear = FALSE, !.new_data = <<>>],
         cmds  |-> uploads \o fill]

\* Atlas::update: [atlas, cmds], cmds the copies recorded on the encoder in
\* recording order.
Atlas_update(a) ==
    LET fill    == IF a.did_clear THEN << ZeroFillCommand(a) >> ELSE <<>>
        uploads == [i \in 1..Len(a.new_data) |-> UploadCommand(a, a.new_data[i])]
    IN  [atlas |-> [a EXCEPT !.did_clear = FALSE, !.new_data = <<>>],
         cmds  |-> fill \o uploads]

\* Atlas::usage is area_used / (width * height) in f32; the model keeps the
\* numerator and the denominator.
Atlas_usage(a) == [num |-> a.area_used, den |-> a.width * a.height]

\* Variant of the usage test: the threshold is 0.8.
UsageAbove08(a) == 10 * Atlas_usage(a).num > 8 * Atlas_usage(a).den

\* usage() > 0.7.  Numerator and denominator stay below 2^24 here, where the
\* conversion to f32 is exact and the f32 quotient exceeds the f32 constant
\* 0.7 exactly when the rational one exceeds 7/10.
UsageAbove07(a) == 10 * Atlas_usage(a).num > 7 * Atlas_usage(a).den

(***************************************************************************)
(* GlyphCache (src/glyphs.rs).  A cache is the record of the struct's      *)
(* fields; the three tables are functions whose domain is the set of keys  *)
(* present.  A lookup operator takes the value the rasterizer callback     *)
(* yields if it is invoked and reports in `called` whether it was.         *)
(***************************************************************************)
AtlasInfo(rect, left, top, colored) ==
    [rect |-> rect, left |-> left, top |-> top, colored |-> colored]

GlyphCache_new ==
    LET size == InitialSize
    IN  [size        |-> size,
         mask_atlas  |-> Atlas_new("Mask", size, size),
         color_atlas |-> Atlas_new("Color", size, size),
         glyph_infos |-> EmptyMap,
         img_infos   |-> EmptyMap,
         svg_infos   |-> EmptyMap]

\* The miss path of get_image_mask once add_region has answered r.
ImageMiss(c, hash, r) ==
    [cache  |-> [c EXCEPT !.color_atlas = r.atlas,
                          !.img_infos   = MapPut(c.img_infos, hash,
                                                 AtlasInfo(r.rect, 0, 0, TRUE))],
     info   |-> AtlasInfo(r.rect, 0, 0, TRUE),
     called |-> TRUE]

\* Variant of get_image_mask: the table is not consulted.
GlyphCache_get_image_mask_noLookup(c, hash, image) ==
    ImageMiss(c, hash,
        Atlas_add_region(c.color_atlas, image.data, image.width, image.height))

\* image: [width, height, data]
GlyphCache_get_image_mask(c, hash, image) ==
    IF hash \in DOMAIN c.img_infos
    THEN [cache |-> c, info |-> c.img_infos[hash], called |-> FALSE]
    ELSE ImageMiss(c, hash,
             Atlas_add_region(c.color_atlas, image.data, image.width, image.height))

\* The miss path of get_svg_mask once add_region has answered r; c0 holds a
\* table for hash.
\* Variant of the svg miss: the Placement is also filed under the hash in
\* the image table.
SvgMiss_alsoImage(c0, hash, width, height, r) ==
    [cache  |-> [c0 EXCEPT
             !.color_atlas = r.atlas,
             !.img_infos   = MapPut(c0.img_infos, hash, AtlasInfo(r.rect, 0, 0, TRUE)),
             !.svg_infos   = MapPut(c0.svg_infos, hash,
                                 MapPut(c0.svg_infos[hash], <<width, height>>,
                                        AtlasInfo(r.rect, 0, 0, TRUE)))],
     info   |-> AtlasInfo(r.rect, 0, 0, TRUE),
     called |-> TRUE]

SvgMiss(c0, hash, width, height, r) ==
    [cache  |-> [c0 EXCEPT
             !.color_atlas = r.atlas,
             !.svg_infos   = MapPut(c0.svg_infos, hash,
                                 MapPut(c0.svg_infos[hash], <<width, height>>,
                                        AtlasInfo(r.rect, 0, 0, TRUE)))],
     info   |-> AtlasInfo(r.rect, 0, 0, TRUE),
     called |-> TRUE]

\* Variant of the svg lookup: an entry of any size answers for the hash.
SvgLookup_anySize(c0, hash, width, height, data) ==
    IF DOMAIN c0.svg_infos[hash] # {}
    THEN [cache |-> c0,
          info |-> c0.svg_infos[hash][CHOOSE z \in DOMAIN c0.svg_infos[hash] : TRUE],
          called |-> FALSE]
    ELSE SvgMiss(c0, hash, width, height,
             Atlas_add_region(c0.color_atlas, data, width, height))

\* get_svg_mask after the table for hash was created if absent (c0).
SvgLookup(c0, hash, width, height, data) ==
    IF <<width, height>> \in DOMAIN c0.svg_infos[hash]
    THEN [cache |-> c0, info |-> c0.svg_infos[hash][<<width, height>>], called |-> FALSE]
    ELSE SvgMiss(c0, hash, width, height,
             Atlas_add_region(c0.color_atlas, data, width, height))

\* data: the bytes the rasterizer yields
GlyphCache_get_svg_mask(c, hash, width, height, data) ==
    SvgLookup(IF hash \notin DOMAIN c.svg_infos
              THEN [c EXCEPT !.svg_infos = MapPut(c.svg_infos, hash, EmptyMap)]
              ELSE c,
              hash, width, height, data)

\* key: <<font_id, glyph_id, size, subpx>>
\* image: [content, data, placement: [width, height, left, top]]
GlyphInfo(image, rect) ==
    AtlasInfo(rect, image.placement.left, image.placement.top, image.content # "Mask")

\* The miss path of get_glyph_mask once add_region on the atlas of the
\* image's content has answered r.
GlyphMiss(c, key, image, r) ==
    [cache  |-> [c EXCEPT
             !.mask_atlas  = IF image.content = "Mask" THEN r.atlas ELSE @,
             !.color_atlas = IF image.content = "Mask" THEN @ ELSE r.atlas,
             !.glyph_infos = MapPut(c.glyph_infos, key, GlyphInfo(image, r.rect))],
     info   |-> GlyphInfo(image, r.rect),
     called |-> TRUE]

\* Variant of get_glyph_mask: only Color content goes to the color atlas.
GlyphCache_get_glyph_mask_subpixelToMask(c, key, image) ==
    IF key \in DOMAIN c.glyph_infos
    THEN [cache |-> c, info |-> c.glyph_infos[key], called |-> FALSE]
    ELSE LET r == Atlas_add_region(
                      IF image.content # "Color" THEN c.mask_atlas ELSE c.color_atlas,
                      image.data, image.placement.width, image.placement.height)
         IN  [cache  |-> [c EXCEPT
                      !.mask_atlas  = IF image.content # "Color" THEN r.atlas ELSE @,
                      !.color_atlas = IF image.content # "Color" THEN @ ELSE r.atlas,
                      !.glyph_infos = MapPut(c.glyph_infos, key, GlyphInfo(image, r.rect))],
              info   |-> GlyphInfo(image, r.rect),
              called |-> TRUE]

GlyphCache_get_glyph_mask(c, key, image) ==
    IF key \in DOMAIN c.glyph_infos
    THEN [cache |-> c, info |-> c.glyph_infos[key], called |-> FALSE]
    ELSE GlyphMiss(c, key, image,
             Atlas_add_region(IF image.content = "Mask" THEN c.mask_atlas ELSE c.color_atlas,
                              image.data, image.placement.width, image.placement.height))

\* GlyphCache::update: [cache, mask_cmds, color_cmds]
GlyphCache_update(c) ==
    [cache      |-> [c EXCEPT !.mask_atlas  = Atlas_update(c.mask_atlas).atlas,
                              !.color_atlas = Atlas_update(c.color_atlas).atlas],
     mask_cmds  |-> Atlas_update(c.mask_atlas).cmds,
     color_cmds |-> Atlas_update(c.color_atlas).cmds]

\* Variant of GlyphCache::clear: svg_infos is not cleared.
\* Variant of GlyphCache::clear: the image table is kept.
GlyphCache_clear_keepsImages(c) ==
    [c EXCEPT !.mask_atlas  = Atlas_clear(c.mask_atlas),
              !.color_atlas = Atlas_clear(c.color_atlas),
              !.glyph_infos = EmptyMap,
              !.svg_infos   = EmptyMap]

GlyphCache_clear_keepsSvg(c) ==
    [c EXCEPT !.mask_atlas  = Atlas_clear(c.mask_atlas),
              !.color_atlas = Atlas_clear(c.color_atlas),
              !.glyph_infos = EmptyMap,
              !.img_infos   = EmptyMap]

GlyphCache_clear(c) ==
    [c EXCEPT !.mask_atlas  = Atlas_clear(c.mask_atlas),
              !.color_atlas = Atlas_clear(c.color_atlas),
              !.glyph_infos = EmptyMap,
              !.svg_infos   = EmptyMap,
              !.img_infos   = EmptyMap]

\* (mask.max_seen as f32 * 2.0).max(color.max_seen as f32 * 2.0) as u32:
\* exact for max_seen below 2^23.
Required(c) == Max(c.mask_atlas.max_seen * 2, c.color_atlas.max_seen * 2)

\* Variant of check_usage: growth resizes the atlases and keeps the tables.
GlyphCache_check_usage_keepsTables(c) ==
    LET max_seen == Required(c)
    IN  IF max_seen > c.size
        THEN [cache |-> [c EXCEPT !.size        = max_seen,
                                  !.mask_atlas  = Atlas_resize(c.mask_atlas, max_seen, max_seen),
                                  !.color_atlas = Atlas_resize(c.color_atlas, max_seen, max_seen)],
              grew  |-> TRUE]
        ELSE IF UsageAbove07(c.mask_atlas) \/ UsageAbove07(c.color_atlas)
        THEN [cache |-> GlyphCache_clear(c), grew |-> FALSE]
        ELSE [cache |-> c, grew |-> FALSE]

\* Variant of check_usage: growth resizes the mask atlas only.
GlyphCache_check_usage_resizesMaskOnly(c) ==
    LET max_seen == Required(c)
    IN  IF max_seen > c.size
        THEN [cache |-> GlyphCache_clear(
                            [c EXCEPT !.size        = max_seen,
                                      !.mask_atlas  = Atlas_resize(c.mask_atlas, max_seen, max_seen)]),
              grew  |-> TRUE]
        ELSE IF UsageAbove07(c.mask_atlas) \/ UsageAbove07(c.color_atlas)
        THEN [cache |-> GlyphCache_clear(c), grew |-> FALSE]
        ELSE [cache |-> c, grew |-> FALSE]

\* Variant of check_usage: growth as soon as required reaches the size.
GlyphCache_check_usage_growsAtSize(c) ==
    LET max_seen == Required(c)
    IN  IF max_seen >= c.size
        THEN [cache |-> GlyphCache_clear(
                            [c EXCEPT !.size        = max_seen,
                                      !.mask_atlas  = Atlas_resize(c.mask_atlas, max_seen, max_seen),
                                      !.color_atlas = Atlas_resize(c.color_atlas, max_seen, max_seen)]),
              grew  |-> TRUE]
        ELSE IF UsageAbove07(c.mask_atlas) \/ UsageAbove07(c.color_atlas)
        THEN [cache |-> GlyphCache_clear(c), grew |-> FALSE]
        ELSE [cache |-> c, grew |-> FALSE]

\* GlyphCache::check_usage: [cache, grew]
GlyphCache_check_usage(c) ==
    LET max_seen == Required(c)
    IN  IF max_seen > c.size
        THEN [cache |-> GlyphCache_clear(
                            [c EXCEPT !.size        = max_seen,
                                      !.mask_atlas  = Atlas_resize(c.mask_atlas, max_seen, max_seen),
                                      !.color_atlas = Atlas_resize(c.color_atlas, max_seen, max_seen)]),
              grew  |-> TRUE]
        ELSE IF UsageAbove07(c.mask_atlas) \/ UsageAbove07(c.color_atlas)
        THEN [cache |-> GlyphCache_clear(c), grew |-> FALSE]
        ELSE [cache |-> c, grew |-> FALSE]

(***************************************************************************)
(* Texture contents.  A texture is the set of [rect, data] regions that    *)
(* hold the bytes of an upload; every other texel is zero or left over.    *)
(***************************************************************************)
RectsOverlap(r1, r2) ==
    /\ r1.x < r2.x + r2.width
    /\ r2.x < r1.x + r1.width
    /\ r1.y < r2.y + r2.height
    /\ r2.y < r1.y + r1.height

\* The texture after one recorded copy is executed: the copy replaces what
\* it covers.  An upload leaves data's rows in the rect when the buffer's
\* rows are bytes_per_row apart.
Copied(t, cmd) ==
    {b \in t : ~RectsOverlap(b.rect, [x      |-> cmd.origin.x,
                                      y      |-> cmd.origin.y,
                                      width  |-> cmd.extent.width,
                                      height |-> cmd.extent.height])}
        \cup (IF cmd.kind = "upload"
              THEN {[rect |-> [x      |-> cmd.origin.x,
                               y      |-> cmd.origin.y,
                               width  |-> cmd.extent.width,
                               height |-> cmd.extent.height],
                     data |-> IF cmd.buffer.row_lens = {cmd.bytes_per_row}
                              THEN cmd.data[1]
                              ELSE "garbled"]}
              ELSE {})

\* The texture after the copies cmds are executed in recording order.
RECURSIVE Blit(_, _)
Blit(t, cmds) ==
    IF cmds = <<>> THEN t ELSE Blit(Copied(t, Head(cmds)), Tail(cmds))

(***************************************************************************)
(* State.                                                                  *)
(*   atlas      a stand-alone Atlas                                        *)
(*   cache      a GlyphCache                                               *)
(* History of the calls made, kept beside the program state:               *)
(*   a_ret      the last Atlas call and what it returned / recorded        *)
(*   a_live     rects add_region returned since the last clear or resize,  *)
(*              in call order                                              *)
(*   a_pending  the {rect, data} add_region accepted since the last        *)
(*              update, clear or resize, in call order                     *)
(*   a_cleared  a clear or resize happened since the last update           *)
(*   a_fresh    [atlas, rect, full, was_full]: an atlas constructed anew   *)
(*              with the atlas's content and size at its last clear or     *)
(*              resize and given the add_region calls made since, with     *)
(*              what it returned last; full: a non-empty region was        *)
(*              refused since; was_full: full held at the last clear       *)
(*   a_nops     number of Atlas calls made                                 *)
(*   ret        the last GlyphCache call and what it returned              *)
(*   issued     tagged key -> Placement last returned for it since the     *)
(*              last clear or growth of the cache                          *)
(*   stale      tagged keys whose Placement was issued before the last     *)
(*              clear or growth and that were not looked up since          *)
(*   raster     what the rasterizer callback yielded in the last call      *)
(*              (none if it was not invoked): [width, height, data] for    *)
(*              an image or svg, the SwashImage for a glyph                *)
(*   rasterized tagged key -> the bytes the rasterizer yielded for its     *)
(*              entry, since the last clear or growth of the cache         *)
(*   tex        [mask, color]: the contents of the two atlas textures once *)
(*              the copies recorded so far are executed                    *)
(*   nops       number of GlyphCache calls made                            *)
(***************************************************************************)
VARIABLES atlas, a_ret, a_live, a_pending, a_cleared, a_fresh, a_nops,
          cache, ret, issued, stale, raster, rasterized, tex, nops

atlas_vars == <<atlas, a_ret, a_live, a_pending, a_cleared, a_fresh, a_nops>>

cache_vars == <<cache, ret, issued, stale, raster, rasterized, tex, nops>>

vars == <<atlas, a_ret, a_live, a_pending, a_cleared, a_fresh, a_nops,
          cache, ret, issued, stale, raster, rasterized, tex, nops>>

ARet(op, args, rect, cmds) == [op |-> op, args |-> args, rect |-> rect, cmds |-> cmds]

Ret(op, key, info, called, grew, mask_cmds, color_cmds) ==
    [op |-> op, key |-> key, info |-> info, called |-> called, grew |-> grew,
     mask_cmds |-> mask_cmds, color_cmds |-> color_cmds]

InitHistory ==
    /\ a_ret = ARet("new", None, None, <<>>)
    /\ a_live = <<>>
    /\ a_pending = <<>>
    /\ a_cleared = FALSE
    /\ a_fresh = [atlas |-> atlas, rect |-> None, full |-> FALSE, was_full |-> FALSE]
    /\ a_nops = 0
    /\ ret = Ret("new", None, None, FALSE, FALSE, <<>>, <<>>)
    /\ issued = EmptyMap
    /\ stale = {}
    /\ raster = None
    /\ rasterized = EmptyMap
    /\ tex = [mask |-> {}, color |-> {}]
    /\ nops = 0

\* GlyphCache::new; the stand-alone atlas is not used.
Init ==
    /\ cache = GlyphCache_new
    /\ atlas = Atlas_new("Mask", InitialSize, InitialSize)
    /\ InitHistory

\* Atlas::new with each content kind and size; the cache is not used.
InitAtlas ==
    /\ cache = GlyphCache_new
    /\ \E content \in AtlasContent, s \in AtlasSizes :
           atlas = Atlas_new(content, s[1], s[2])
    /\ InitHistory

(***************************************************************************)
(* Calls on the stand-alone atlas.                                         *)
(***************************************************************************)
\* The history after add_region(data, width, height) answered r.
Added(data, width, height, r) ==
    /\ atlas' = r.atlas
    /\ a_ret' = ARet("add_region", <<width, height>>, r.rect, <<>>)
    /\ a_live' = IF IsSome(r.rect) THEN Append(a_live, Unwrap(r.rect)) ELSE a_live
    /\ a_pending' = IF IsSome(r.rect)
                    THEN Append(a_pending, [rect |-> Unwrap(r.rect), data |-> data])
                    ELSE a_pending

\* The same call on the atlas constructed anew answered f; r as in Added.
FreshAdded(width, height, r, f) ==
    a_fresh' = [a_fresh EXCEPT
                    !.atlas = f.atlas,
                    !.rect  = f.rect,
                    !.full  = @ \/ (r.rect = None /\ width > 0 /\ height > 0)]

add_region ==
    /\ a_nops < MaxAtlasOps
    /\ \E width \in RegionDims, height \in RegionDims :
           /\ Added(a_nops, width, height, Atlas_add_region(atlas, a_nops, width, height))
           /\ FreshAdded(width, height, Atlas_add_region(atlas, a_nops, width, height),
                         Atlas_add_region(a_fresh.atlas, a_nops, width, height))
    /\ a_nops' = a_nops + 1
    /\ UNCHANGED <<a_cleared, cache_vars>>

Updated(r) ==
    /\ atlas' = r.atlas
    /\ a_ret' = ARet("update", None, None, r.cmds)

update ==
    /\ a_nops < MaxAtlasOps
    /\ Updated(Atlas_update(atlas))
    /\ a_pending' = <<>>
    /\ a_cleared' = FALSE
    /\ a_nops' = a_nops + 1
    /\ UNCHANGED <<a_live, a_fresh, cache_vars>>

clear ==
    /\ a_nops < MaxAtlasOps
    /\ atlas' = Atlas_clear(atlas)
    /\ a_ret' = ARet("clear", None, None, <<>>)
    /\ a_live' = <<>>
    /\ a_pending' = <<>>
    /\ a_cleared' = TRUE
    /\ a_fresh' = [atlas    |-> Atlas_new(atlas.content, atlas.width, atlas.height),
                   rect     |-> None,
                   full     |-> FALSE,
                   was_full |-> a_fresh.full]
    /\ a_nops' = a_nops + 1
    /\ UNCHANGED cache_vars

resize ==
    /\ a_nops < MaxAtlasOps
    /\ \E s \in AtlasSizes :
           /\ atlas' = Atlas_resize(atlas, s[1], s[2])
           /\ a_ret' = ARet("resize", s, None, <<>>)
           /\ a_fresh' = [atlas    |-> Atlas_new(atlas.content, s[1], s[2]),
                          rect     |-> None,
                          full     |-> FALSE,
                          was_full |-> FALSE]
    /\ a_live' = <<>>
    /\ a_pending' = <<>>
    /\ a_cleared' = TRUE
    /\ a_nops' = a_nops + 1
    /\ UNCHANGED cache_vars

NextAtlas == add_region \/ update \/ clear \/ resize

SpecAtlas == InitAtlas /\ [][NextAtlas]_vars

(***************************************************************************)
(* Calls on the cache.                                                     *)
(***************************************************************************)
ImgKey(hash) == <<"img", hash>>

SvgKey(hash, width, height) == <<"svg", <<hash, width, height>>>>

GlyphKey(key) == <<"glyph", key>>

\* The history after a lookup of tagged key k that answered r, image being
\* what the rasterizer yields when invoked.
Looked(k, r, op, image) ==
    /\ cache' = r.cache
    /\ ret' = Ret(op, k, Some(r.info), r.called, FALSE, <<>>, <<>>)
    /\ issued' = MapPut(issued, k, r.info)
    /\ stale' = stale \ {k}
    /\ raster' = IF r.called THEN Some(image) ELSE None
    /\ rasterized' = IF r.called THEN MapPut(rasterized, k, image.data) ELSE rasterized
    /\ tex' = tex
    /\ nops' = nops + 1
    /\ UNCHANGED atlas_vars

get_image_mask ==
    /\ nops < MaxOps
    /\ \E hash \in ImageHashes, image \in Images :
           Looked(ImgKey(hash), GlyphCache_get_image_mask(cache, hash, image),
                  "get_image_mask", image)

get_svg_mask ==
    /\ nops < MaxOps
    /\ \E hash \in SvgHashes, s \in SvgSizes :
           Looked(SvgKey(hash, s[1], s[2]),
                  GlyphCache_get_svg_mask(cache, hash, s[1], s[2], <<"svg", s>>),
                  "get_svg_mask",
                  [width |-> s[1], height |-> s[2], data |-> <<"svg", s>>])

get_glyph_mask ==
    /\ nops < MaxOps
    /\ \E key \in GlyphKeys, image \in SwashImages :
           Looked(GlyphKey(key), GlyphCache_get_glyph_mask(cache, key, image),
                  "get_glyph_mask", image)

CacheUpdated(r) ==
    /\ cache' = r.cache
    /\ tex' = [mask  |-> Blit(tex.mask, r.mask_cmds),
               color |-> Blit(tex.color, r.color_cmds)]
    /\ ret' = Ret("update", None, None, FALSE, FALSE, r.mask_cmds, r.color_cmds)

cache_update ==
    /\ nops < MaxOps
    /\ CacheUpdated(GlyphCache_update(cache))
    /\ nops' = nops + 1
    /\ raster' = None
    /\ UNCHANGED <<issued, stale, rasterized, atlas_vars>>

\* check_usage cleared or grew exactly when it changed the cache.
Checked(r) ==
    /\ cache' = r.cache
    /\ ret' = Ret("check_usage", None, None, FALSE, r.grew, <<>>, <<>>)
    /\ issued' = IF r.cache # cache THEN EmptyMap ELSE issued
    /\ stale' = IF r.cache # cache THEN stale \cup DOMAIN issued ELSE stale
    /\ rasterized' = IF r.cache # cache THEN EmptyMap ELSE rasterized
    /\ tex' = IF r.grew THEN [mask |-> {}, color |-> {}] ELSE tex

check_usage ==
    /\ nops < MaxOps
    /\ Checked(GlyphCache_check_usage(cache))
    /\ raster' = None
    /\ nops' = nops + 1
    /\ UNCHANGED atlas_vars

cache_clear ==
    /\ nops < MaxOps
    /\ cache' = GlyphCache_clear(cache)
    /\ ret' = Ret("clear", None, None, FALSE, FALSE, <<>>, <<>>)
    /\ issued' = EmptyMap
    /\ stale' = stale \cup DOMAIN issued
    /\ raster' = None
    /\ rasterized' = EmptyMap
    /\ tex' = tex
    /\ nops' = nops + 1
    /\ UNCHANGED atlas_vars

Next ==
    \/ get_image_mask
    \/ get_svg_mask
    \/ get_glyph_mask
    \/ cache_update
    \/ check_usage
    \/ cache_clear

Spec == Init /\ [][Next]_vars

(***************************************************************************)
(* Properties of the stand-alone atlas (SpecAtlas).                        *)
(***************************************************************************)
RectInside(r, width, height) ==
    /\ r.x >= 0
    /\ r.y >= 0
    /\ r.x + r.width <= width
    /\ r.y + r.height <= height

PaddedArea(width, height) == (width + RECT_PADDING) * (height + RECT_PADDING)

\* C1: the rects add_region returned since the last clear or resize are
\* pairwise disjoint and each lies inside [0,width) x [0,height) of the
\* atlas (whatever their cumulative padded area).
C1_RectsDisjointInside ==
    /\ \A i \in 1..Len(a_live) : RectInside(a_live[i], atlas.width, atlas.height)
    /\ \A i, j \in 1..Len(a_live) : i < j => ~RectsOverlap(a_live[i], a_live[j])

\* Three rects were returned and their padded area is within the atlas area.
C1_Witness ==
    /\ Len(a_live) >= 3
    /\ atlas.area_used <= atlas.width * atlas.height

FailedAdd == a_ret'.op = "add_region" /\ a_ret'.rect = None /\ a_nops' = a_nops + 1

\* C7 as claimed: an add_region that returns none leaves every field of the
\* atlas, max_seen included, as it was.
C7_FailedAddChangesNothing == [][FailedAdd => atlas' = atlas]_vars

\* C7 amended: an add_region(width, height) that returns none leaves the
\* packing state, the pending uploads, area_used and the pending-clear flag
\* as they were and raises max_seen to max(max_seen, width, height).
C7_FailedAddOnlyRaisesMaxSeen ==
    [][FailedAdd =>
          atlas' = [atlas EXCEPT !.max_seen =
                        Max(atlas.max_seen, Max(a_ret'.args[1], a_ret'.args[2]))]]_vars

\* A non-empty region did not fit into a partly filled atlas.
C7_Witness ==
    /\ a_ret.op = "add_region"
    /\ a_ret.rect = None
    /\ a_ret.args[1] > 0 /\ a_ret.args[2] > 0
    /\ Len(a_live) >= 1
    /\ atlas.max_seen = Max(a_ret.args[1], a_ret.args[2])

\* C8: usage() grows by (rect.width+6)(rect.height+6) / (width*height) > 0
\* with each add_region that returns a rect, is unchanged by a failed
\* add_region and by update, and is 0 right after clear and resize.
C8_Usage ==
    [][/\ a_ret'.op = "add_region" /\ a_nops' = a_nops + 1 /\ IsSome(a_ret'.rect) =>
            /\ Atlas_usage(atlas').den = Atlas_usage(atlas).den
            /\ Atlas_usage(atlas').den > 0
            /\ Atlas_usage(atlas').num = Atlas_usage(atlas).num
                   + PaddedArea(a_ret'.rect[1].width, a_ret'.rect[1].height)
            /\ Atlas_usage(atlas').num > Atlas_usage(atlas).num
       /\ FailedAdd \/ (a_ret'.op = "update" /\ a_nops' = a_nops + 1) =>
            Atlas_usage(atlas') = Atlas_usage(atlas)
       /\ a_ret'.op \in {"clear", "resize"} /\ a_nops' = a_nops + 1 =>
            /\ Atlas_usage(atlas').num = 0
            /\ Atlas_usage(atlas').den > 0]_vars

\* A second region was accepted.
C8_Witness ==
    /\ a_ret.op = "add_region"
    /\ IsSome(a_ret.rect)
    /\ Len(a_live) >= 2
    /\ atlas.area_used > PaddedArea(a_ret.rect[1].width, a_ret.rect[1].height)

Uploads(cmds) == SelectSeq(cmds, LAMBDA c : c.kind = "upload")

\* C9: update records the zero-fill iff a clear or resize happened since the
\* previous update, records it first, records one upload per region accepted
\* since, in add_region order, and leaves the queue empty and the
\* pending-clear flag false, so that an update right after records nothing.
C9_UpdateOrder ==
    [][a_ret'.op = "update" /\ a_nops' = a_nops + 1 =>
          LET cmds == a_ret'.cmds
          IN  /\ (\E i \in 1..Len(cmds) : cmds[i].kind = "zero_fill") <=> a_cleared
              /\ \A i \in 1..Len(cmds) : cmds[i].kind = "zero_fill" => i = 1
              /\ Len(Uploads(cmds)) = Len(a_pending)
              /\ \A i \in 1..Len(a_pending) :
                     /\ Uploads(cmds)[i].origin =
                            [x |-> a_pending[i].rect.x, y |-> a_pending[i].rect.y]
                     /\ Uploads(cmds)[i].extent =
                            [width |-> a_pending[i].rect.width,
                             height |-> a_pending[i].rect.height]
                     /\ Uploads(cmds)[i].data = Some(a_pending[i].data)
              /\ atlas'.new_data = <<>>
              /\ atlas'.did_clear = FALSE
              /\ Atlas_update(atlas').cmds = <<>>]_vars

\* An update recorded the zero-fill and then two uploads.
C9_Witness ==
    /\ a_ret.op = "update"
    /\ Len(a_ret.cmds) = 3
    /\ a_ret.cmds[1].kind = "zero_fill"
    /\ a_ret.cmds[2].data # a_ret.cmds[3].data

\* C11: an atlas that was cleared (after being filled until a region was
\* refused, or at any other time) answers every add_region since with the
\* rect or none, and shows the usage, that an atlas constructed anew with
\* the same content and dimensions gives for the same calls.
C11_ClearedAsNew ==
    /\ a_ret.op = "add_region" => a_ret.rect = a_fresh.rect
    /\ Atlas_usage(atlas) = Atlas_usage(a_fresh.atlas)
    /\ atlas.packer = a_fresh.atlas.packer

\* An atlas was filled until it refused a region, cleared, and filled until
\* it refused a region again.
C11_Witness ==
    /\ a_fresh.was_full
    /\ a_fresh.full
    /\ Len(a_live) >= 1
    /\ a_ret.op = "add_region"
    /\ a_ret.rect = None

(***************************************************************************)
(* Properties of the cache (Spec).                                         *)
(***************************************************************************)
Lookups == {"get_image_mask", "get_svg_mask", "get_glyph_mask"}

LookupStep == ret'.op \in Lookups /\ nops' = nops + 1

CheckUsageStep == ret'.op = "check_usage" /\ nops' = nops + 1

\* Every table is empty.
TablesEmpty(c) ==
    /\ DOMAIN c.glyph_infos = {}
    /\ DOMAIN c.svg_infos = {}
    /\ DOMAIN c.img_infos = {}

\* An atlas as Atlas::clear leaves it: nothing packed, nothing queued,
\* usage 0, zero-fill pending.
AtlasCleared(a) ==
    /\ a.packer.packer.skylines = << Skyline(0, 0, a.width - RECT_PADDING) >>
    /\ a.packer.config.width = a.width
    /\ a.packer.config.height = a.height
    /\ a.new_data = <<>>
    /\ a.area_used = 0
    /\ a.width * a.height > 0
    /\ a.did_clear

\* The Placements of every table of c.
Entries(c) ==
    {c.glyph_infos[k] : k \in DOMAIN c.glyph_infos}
        \cup {c.img_infos[k] : k \in DOMAIN c.img_infos}
        \cup UNION {{c.svg_infos[h][z] : z \in DOMAIN c.svg_infos[h]} : h \in DOMAIN c.svg_infos}

\* C2: a lookup with a key that was looked up before, with no clear or
\* growth of the cache since, returns the Placement returned then (be its
\* rect present or none) and does not invoke the rasterizer.
C2_RepeatedLookup ==
    [][LookupStep /\ ret'.key \in DOMAIN issued =>
          /\ ret'.info = Some(issued[ret'.key])
          /\ ~ret'.called]_vars

\* A glyph key whose Placement has no rect was looked up again after a
\* lookup of another key.
C2_Witness ==
    /\ ret.op = "get_glyph_mask"
    /\ ~ret.called
    /\ ret.info[1].rect = None
    /\ Cardinality(DOMAIN issued) >= 2

\* C3: when twice the largest dimension requested exceeds the size,
\* check_usage makes the size and both atlases' sides that number, leaves
\* both usages 0 and all tables empty and returns true; a later lookup
\* with a key used before it invokes the rasterizer.
C3_Growth ==
    [][/\ CheckUsageStep
          /\ 2 * Max(cache.mask_atlas.max_seen, cache.color_atlas.max_seen) > cache.size =>
            LET required == 2 * Max(cache.mask_atlas.max_seen, cache.color_atlas.max_seen)
            IN  /\ ret'.grew
                /\ cache'.size = required
                /\ \A a \in {cache'.mask_atlas, cache'.color_atlas} :
                       /\ a.width = required
                       /\ a.height = required
                       /\ a.atlas_texture.width = required
                       /\ a.atlas_texture.height = required
                       /\ Atlas_usage(a).num = 0
                       /\ Atlas_usage(a).den > 0
                /\ TablesEmpty(cache')
       /\ LookupStep /\ ret'.key \in stale => ret'.called]_vars

\* After a growth, a key used before it was looked up again.
C3_Witness ==
    /\ cache.size = 1400
    /\ ret.op = "get_glyph_mask"
    /\ ret.called
    /\ nops = 3
    /\ Cardinality(DOMAIN issued) = 1
    /\ stale = {}

\* C4: when neither usage exceeds 0.7 and twice the largest dimension
\* requested does not exceed the size, check_usage returns false and leaves
\* the whole cache as it was.
C4_CheckUsageNoOp ==
    [][/\ CheckUsageStep
       /\ 2 * Max(cache.mask_atlas.max_seen, cache.color_atlas.max_seen) <= cache.size
       /\ 10 * cache.mask_atlas.area_used
              <= 7 * cache.mask_atlas.width * cache.mask_atlas.height
       /\ 10 * cache.color_atlas.area_used
              <= 7 * cache.color_atlas.width * cache.color_atlas.height
       => /\ ~ret'.grew
          /\ cache' = cache]_vars

\* check_usage ran on a cache holding placed entries and left them.
C4_Witness ==
    /\ ret.op = "check_usage"
    /\ ~ret.grew
    /\ Cardinality(DOMAIN issued) >= 2
    /\ cache.color_atlas.max_seen = 512
    /\ cache.mask_atlas.area_used > 0

\* C5: when twice the largest dimension requested does not exceed the size
\* and one atlas's usage is above 0.7, check_usage empties the three tables,
\* resets both atlases' packing state, queue and usage, marks both atlases
\* pending-clear, keeps the size, the atlases' dimensions and textures, and
\* returns false.
C5_SoftClear ==
    [][/\ CheckUsageStep
       /\ 2 * Max(cache.mask_atlas.max_seen, cache.color_atlas.max_seen) <= cache.size
       /\ \/ 10 * cache.mask_atlas.area_used
                 > 7 * cache.mask_atlas.width * cache.mask_atlas.height
          \/ 10 * cache.color_atlas.area_used
                 > 7 * cache.color_atlas.width * cache.color_atlas.height
       => /\ ~ret'.grew
          /\ TablesEmpty(cache')
          /\ AtlasCleared(cache'.mask_atlas)
          /\ AtlasCleared(cache'.color_atlas)
          /\ cache'.size = cache.size
          /\ \A f \in {"width", "height", "atlas_texture", "max_seen", "content"} :
                 /\ cache'.mask_atlas[f] = cache.mask_atlas[f]
                 /\ cache'.color_atlas[f] = cache.color_atlas[f]]_vars

\* check_usage cleared a cache of the initial size whose mask atlas held
\* three glyphs.
C5_Witness ==
    /\ ret.op = "check_usage"
    /\ ~ret.grew
    /\ nops = 4
    /\ cache.size = InitialSize
    /\ Cardinality(stale) = 3
    /\ \A k \in stale : k[1] = "glyph"
    /\ cache.mask_atlas.did_clear
    /\ cache.color_atlas.max_seen = 0

\* C6 as claimed: after check_usage no table holds a Placement without a
\* rect, so a key that could not be placed is rasterized and placed anew at
\* its next lookup.
C6_CheckUsageDropsUnplaced ==
    [][CheckUsageStep => \A e \in Entries(cache') : IsSome(e.rect)]_vars

\* C10: GlyphCache::clear leaves all three tables empty and both atlases
\* cleared and pending-clear; after every operation the two atlases agree on
\* the pending-clear flag.
C10_ClearIsWhole ==
    [][/\ ret'.op = "clear" /\ nops' = nops + 1 =>
            /\ TablesEmpty(cache')
            /\ AtlasCleared(cache'.mask_atlas)
            /\ AtlasCleared(cache'.color_atlas)
       /\ cache'.mask_atlas.did_clear = cache'.color_atlas.did_clear]_vars

\* clear ran on a cache whose three tables held entries.
C10_Witness ==
    /\ ret.op = "clear"
    /\ \A kind \in {"img", "svg", "glyph"} : \E k \in stale : k[1] = kind
    /\ issued = EmptyMap

\* C14: max_seen never decreases: add_region raises it to the largest of
\* itself and the requested width and height (whether or not the region is
\* placed), and update, clear and resize leave it as it is.
C14_MaxSeenKept ==
    [][/\ atlas'.max_seen >= atlas.max_seen
       /\ a_ret'.op \in {"update", "clear", "resize"} /\ a_nops' = a_nops + 1 =>
              atlas'.max_seen = atlas.max_seen
       /\ a_ret'.op = "add_region" /\ a_nops' = a_nops + 1 =>
              atlas'.max_seen =
                  Max(atlas.max_seen, Max(a_ret'.args[1], a_ret'.args[2]))]_vars

\* The atlas was just cleared and still remembers a region size.
C14_Witness ==
    /\ a_ret.op = "clear"
    /\ atlas.max_seen = 12
    /\ atlas.area_used = 0

\* a2 is atlas a after one attempt to place data as a width x height region
\* that answered rect.
PlacedIn(a, a2, rect, data, width, height) ==
    /\ a2.max_seen = Max(a.max_seen, Max(width, height))
    /\ IF IsSome(rect)
       THEN /\ rect[1].width = width
            /\ rect[1].height = height
            /\ a2.new_data = Append(a.new_data, [rect |-> rect[1], data |-> data])
            /\ a2.area_used = a.area_used + PaddedArea(width, height)
       ELSE a2 = [a EXCEPT !.max_seen = a2.max_seen]

MissStep(op) == ret'.op = op /\ nops' = nops + 1 /\ ret'.called

\* C12: a get_glyph_mask miss places Mask content in the mask atlas and
\* SubpixelMask or Color content in the color atlas and returns the
\* rasterizer's left and top with colored = (content is not Mask); a
\* get_image_mask or get_svg_mask miss places in the color atlas and returns
\* left = 0, top = 0, colored = true.  The other atlas is unchanged.
C12_Routing ==
    [][/\ MissStep("get_glyph_mask") =>
            /\ ret'.info[1].left = raster'[1].placement.left
            /\ ret'.info[1].top = raster'[1].placement.top
            /\ ret'.info[1].colored = (raster'[1].content # "Mask")
            /\ IF raster'[1].content = "Mask"
               THEN /\ cache'.color_atlas = cache.color_atlas
                    /\ PlacedIn(cache.mask_atlas, cache'.mask_atlas, ret'.info[1].rect,
                                raster'[1].data, raster'[1].placement.width,
                                raster'[1].placement.height)
               ELSE /\ cache'.mask_atlas = cache.mask_atlas
                    /\ PlacedIn(cache.color_atlas, cache'.color_atlas, ret'.info[1].rect,
                                raster'[1].data, raster'[1].placement.width,
                                raster'[1].placement.height)
       /\ MissStep("get_image_mask") \/ MissStep("get_svg_mask") =>
            /\ ret'.info[1].left = 0
            /\ ret'.info[1].top = 0
            /\ ret'.info[1].colored = TRUE
            /\ cache'.mask_atlas = cache.mask_atlas
            /\ PlacedIn(cache.color_atlas, cache'.color_atlas, ret'.info[1].rect,
                        raster'[1].data, raster'[1].width, raster'[1].height)]_vars

\* A SubpixelMask glyph was placed in the color atlas after a Mask glyph
\* was placed in the mask atlas.
C12_Witness ==
    /\ ret.op = "get_glyph_mask"
    /\ ret.called
    /\ raster[1].content = "SubpixelMask"
    /\ IsSome(ret.info[1].rect)
    /\ Len(cache.color_atlas.new_data) = 1
    /\ Len(cache.mask_atlas.new_data) = 1

\* The svg table of c has an entry for hash at size z.
SvgCached(c, hash, z) ==
    hash \in DOMAIN c.svg_infos /\ z \in DOMAIN c.svg_infos[hash]

\* A get_svg_mask step for hash at size z = <<width, height>>.
SvgStep(hash, z) ==
    /\ ret'.called = ~SvgCached(cache, hash, z)
    /\ SvgCached(cache, hash, z) =>
           /\ ret'.info[1] = cache.svg_infos[hash][z]
           /\ cache' = cache
    /\ ~SvgCached(cache, hash, z) =>
           /\ SvgCached(cache', hash, z)
           /\ cache'.svg_infos[hash][z] = ret'.info[1]
           /\ IsSome(ret'.info[1].rect) =>
                  /\ ret'.info[1].rect[1].width = z[1]
                  /\ ret'.info[1].rect[1].height = z[2]
    /\ \A h2 \in DOMAIN cache.svg_infos :
           \A z2 \in DOMAIN cache.svg_infos[h2] :
               <<h2, z2>> # <<hash, z>> =>
                   /\ SvgCached(cache', h2, z2)
                   /\ cache'.svg_infos[h2][z2] = cache.svg_infos[h2][z2]

\* C13: get_svg_mask caches per (hash, width, height): a call rasterizes
\* exactly when that hash has no entry at that size, whatever other sizes
\* of the same hash are cached; it stores its Placement at that size and
\* leaves the entries of every other size and hash as they were.
C13_SvgPerSize ==
    [][ret'.op = "get_svg_mask" /\ nops' = nops + 1 =>
           SvgStep(ret'.key[2][1], <<ret'.key[2][2], ret'.key[2][3]>>)]_vars

\* One hash is cached at two sizes, each with its own rect, and the last
\* call rasterized the second.
C13_Witness ==
    /\ ret.op = "get_svg_mask"
    /\ ret.called
    /\ \E h \in DOMAIN cache.svg_infos :
           \E z1, z2 \in DOMAIN cache.svg_infos[h] :
               /\ z1 # z2
               /\ IsSome(cache.svg_infos[h][z1].rect)
               /\ IsSome(cache.svg_infos[h][z2].rect)
               /\ cache.svg_infos[h][z1].rect # cache.svg_infos[h][z2].rect

\* How many of the three tables differ between c and c2.
TablesChanged(c, c2) ==
    (IF c2.glyph_infos # c.glyph_infos THEN 1 ELSE 0)
        + (IF c2.svg_infos # c.svg_infos THEN 1 ELSE 0)
        + (IF c2.img_infos # c.img_infos THEN 1 ELSE 0)

\* C15: a lookup that hits leaves the whole cache as it was; a miss leaves
\* the tables of the other two kinds, the atlas it does not route to and
\* the size as they were; a step that changes more than one table is
\* GlyphCache::clear (called directly or by check_usage), which empties
\* all three.
C15_LookupFrame ==
    [][/\ LookupStep /\ ~ret'.called => cache' = cache
       /\ MissStep("get_image_mask") =>
              /\ cache'.glyph_infos = cache.glyph_infos
              /\ cache'.svg_infos = cache.svg_infos
              /\ cache'.mask_atlas = cache.mask_atlas
              /\ cache'.size = cache.size
       /\ MissStep("get_svg_mask") =>
              /\ cache'.glyph_infos = cache.glyph_infos
              /\ cache'.img_infos = cache.img_infos
              /\ cache'.mask_atlas = cache.mask_atlas
              /\ cache'.size = cache.size
       /\ MissStep("get_glyph_mask") =>
              /\ cache'.svg_infos = cache.svg_infos
              /\ cache'.img_infos = cache.img_infos
              /\ cache'.size = cache.size
              /\ IF raster'[1].content = "Mask"
                 THEN cache'.color_atlas = cache.color_atlas
                 ELSE cache'.mask_atlas = cache.mask_atlas
       /\ TablesChanged(cache, cache') > 1 =>
              /\ ret'.op \in {"clear", "check_usage"}
              /\ TablesEmpty(cache')]_vars

\* A lookup just missed while the tables of the other two kinds and both
\* atlases held entries.
C15_Witness ==
    /\ ret.op = "get_svg_mask"
    /\ ret.called
    /\ DOMAIN cache.glyph_infos # {}
    /\ DOMAIN cache.img_infos # {}
    /\ cache.mask_atlas.area_used > 0
    /\ cache.color_atlas.area_used > 0

\* The tagged keys that have an entry in a table of c.
CachedKeys(c) ==
    {GlyphKey(k) : k \in DOMAIN c.glyph_infos}
        \cup {ImgKey(h) : h \in DOMAIN c.img_infos}
        \cup UNION {{SvgKey(h, z[1], z[2]) : z \in DOMAIN c.svg_infos[h]} :
                        h \in DOMAIN c.svg_infos}

\* The entry of tagged key k.
CachedInfo(c, k) ==
    IF k[1] = "glyph" THEN c.glyph_infos[k[2]]
    ELSE IF k[1] = "img" THEN c.img_infos[k[2]]
    ELSE c.svg_infos[k[2][1]][<<k[2][2], k[2][3]>>]

\* The atlas an entry's rect lies in.
OwningAtlas(c, info) == IF info.colored THEN c.color_atlas ELSE c.mask_atlas

\* rect, with its padding, lies inside the packer of atlas a and under its
\* skyline: the packer will not hand any of it out again.
Allocated(a, rect) ==
    LET dx == rect.x - a.packer.config.border_padding
        dy == rect.y - a.packer.config.border_padding
        dw == rect.width + a.packer.config.rectangle_padding
        dh == rect.height + a.packer.config.rectangle_padding
        sk == a.packer.packer.skylines
    IN  /\ dx >= 0
        /\ dy >= 0
        /\ dx + dw <= a.packer.packer.width
        /\ dy + dh <= a.packer.packer.height
        /\ RectInside(rect, a.width, a.height)
        /\ \A i \in 1..Len(sk) :
               sk[i].left < dx + dw /\ dx < sk[i].left + sk[i].width =>
                   sk[i].y >= dy + dh

\* C16: every table entry with a rect has that rect allocated in the
\* packing state of its owning atlas (mask atlas if colored is false, color
\* atlas otherwise); two entries with rects in the same atlas do not
\* overlap; and no key whose entry was placed before the last clear or
\* growth, and not placed again since, has an entry.
C16_EntriesAllocated ==
    /\ \A k \in CachedKeys(cache) :
           IsSome(CachedInfo(cache, k).rect) =>
               Allocated(OwningAtlas(cache, CachedInfo(cache, k)),
                         CachedInfo(cache, k).rect[1])
    /\ \A k1, k2 \in CachedKeys(cache) :
           /\ k1 # k2
           /\ IsSome(CachedInfo(cache, k1).rect)
           /\ IsSome(CachedInfo(cache, k2).rect)
           /\ CachedInfo(cache, k1).colored = CachedInfo(cache, k2).colored
           => ~RectsOverlap(CachedInfo(cache, k1).rect[1], CachedInfo(cache, k2).rect[1])
    /\ stale \cap CachedKeys(cache) = {}

\* After a clear, two entries have rects in the color atlas and one in the
\* mask atlas, while a key placed before the clear has not come back.
C16_Witness ==
    /\ stale # {}
    /\ \E k1, k2, k3 \in CachedKeys(cache) :
           /\ k1 # k2
           /\ IsSome(CachedInfo(cache, k1).rect) /\ CachedInfo(cache, k1).colored
           /\ IsSome(CachedInfo(cache, k2).rect) /\ CachedInfo(cache, k2).colored
           /\ IsSome(CachedInfo(cache, k3).rect) /\ ~CachedInfo(cache, k3).colored

\* n rounded up to the next multiple of the copy alignment.
RoundUp(n) ==
    ((n + COPY_BYTES_PER_ROW_ALIGNMENT - 1) \div COPY_BYTES_PER_ROW_ALIGNMENT)
        * COPY_BYTES_PER_ROW_ALIGNMENT

\* cmd is the copy for pending upload d of an atlas with pixels bytes per
\* pixel.
UploadOk(cmd, d, pixels) ==
    /\ cmd.bytes_per_row = RoundUp(d.rect.width * pixels)
    /\ cmd.buffer_len = cmd.bytes_per_row * d.rect.height
    /\ cmd.assert_ok
    /\ cmd.buffer.row_lens = {cmd.bytes_per_row}
    /\ cmd.buffer.zero_runs = {cmd.bytes_per_row - d.rect.width * pixels}
    /\ cmd.buffer.i = d.rect.width * pixels * d.rect.height
    /\ cmd.data = Some(d.data)
    /\ cmd.origin = [x |-> d.rect.x, y |-> d.rect.y]
    /\ cmd.extent = [width |-> d.rect.width, height |-> d.rect.height]

\* The uploads among cmds are the copies for the pending uploads of a, one
\* each, in queued order.
UploadsOk(a, cmds, pixels) ==
    /\ Len(Uploads(cmds)) = Len(a.new_data)
    /\ \A i \in 1..Len(a.new_data) : UploadOk(Uploads(cmds)[i], a.new_data[i], pixels)

\* C17: for every pending upload, update records one copy at (rect.x,
\* rect.y) of extent rect.width x rect.height from a buffer whose row
\* stride is rect.width x bytes-per-pixel (1 in the Mask atlas, 4 in the
\* Color atlas) rounded up to a multiple of 256; every row of the buffer is
\* the source row's bytes followed by zeros up to the stride, the buffer is
\* stride x rect.height bytes long, and the assert holds.
C17_UploadBuffers ==
    [][ret'.op = "update" /\ nops' = nops + 1 =>
           /\ UploadsOk(cache.mask_atlas, ret'.mask_cmds, 1)
           /\ UploadsOk(cache.color_atlas, ret'.color_cmds, 4)]_vars

\* An update uploaded a Color region whose rows need no padding and a Mask
\* region whose rows are padded past 256 bytes.
C17_Witness ==
    /\ ret.op = "update"
    /\ \E i \in 1..Len(ret.color_cmds) :
           /\ ret.color_cmds[i].kind = "upload"
           /\ ret.color_cmds[i].buffer.zero_runs = {0}
           /\ ret.color_cmds[i].extent.height > 1
    /\ \E i \in 1..Len(ret.mask_cmds) :
           /\ ret.mask_cmds[i].kind = "upload"
           /\ ret.mask_cmds[i].bytes_per_row = 512
           /\ ret.mask_cmds[i].buffer.zero_runs = {12}

\* cmd is a zero-fill whose rows are the texture's width at pixels bytes per
\* pixel, rounded up to the alignment.
ZeroFillOk(cmd, pixels) ==
    /\ cmd.bytes_per_row = RoundUp(cmd.extent.width * pixels)
    /\ cmd.buffer_len = cmd.bytes_per_row * cmd.extent.height

\* C18 as claimed: the zero-fill update records has a row stride of the
\* atlas's width x bytes-per-pixel of its content kind (1 in the Mask
\* atlas, 4 in the Color atlas) rounded up to a multiple of 256, and a
\* buffer of stride x height bytes.
C18_ZeroFillPerContent ==
    /\ \A i \in 1..Len(ret.mask_cmds) :
           ret.mask_cmds[i].kind = "zero_fill" => ZeroFillOk(ret.mask_cmds[i], 1)
    /\ \A i \in 1..Len(ret.color_cmds) :
           ret.color_cmds[i].kind = "zero_fill" => ZeroFillOk(ret.color_cmds[i], 4)

\* The texture an entry's rect lies in.
OwningTexture(info) == IF info.colored THEN tex.color ELSE tex.mask

\* C19: right after GlyphCache::update, for every table entry with a rect
\* the texture of its owning atlas holds at that rect the bytes the
\* rasterizer yielded for the entry: its upload was neither dropped from
\* the queue nor covered by a zero-fill or by another upload.
C19_TextureHoldsEntries ==
    ret.op = "update" =>
        \A k \in CachedKeys(cache) :
            IsSome(CachedInfo(cache, k).rect) =>
                [rect |-> CachedInfo(cache, k).rect[1], data |-> rasterized[k]]
                    \in OwningTexture(CachedInfo(cache, k))

\* An update uploaded one region to the color atlas, without zero-fill,
\* beside a region uploaded by an earlier update; both are cached.
C19_Witness ==
    /\ ret.op = "update"
    /\ Len(ret.color_cmds) = 1
    /\ ret.color_cmds[1].kind = "upload"
    /\ Cardinality(tex.color) = 2
    /\ Cardinality({k \in CachedKeys(cache) :
                        /\ IsSome(CachedInfo(cache, k).rect)
                        /\ CachedInfo(cache, k).colored}) = 2

\* Both atlases of c are size x size, as are their textures.
SizeAgrees(c) ==
    /\ c.mask_atlas.width = c.size
    /\ c.mask_atlas.height = c.size
    /\ c.color_atlas.width = c.size
    /\ c.color_atlas.height = c.size
    /\ c.mask_atlas.atlas_texture.width = c.size
    /\ c.mask_atlas.atlas_texture.height = c.size
    /\ c.color_atlas.atlas_texture.width = c.size
    /\ c.color_atlas.atlas_texture.height = c.size

\* C20: the cache's size is 1024 at first, is at all times the width and
\* the height of both atlases, never decreases, and changes only in a
\* check_usage call that returns true.
C20_Size ==
    /\ cache.size = InitialSize
    /\ []SizeAgrees(cache)
    /\ [][/\ cache'.size >= cache.size
          /\ cache'.size # cache.size =>
                 /\ ret'.op = "check_usage"
                 /\ nops' = nops + 1
                 /\ ret'.grew]_vars

\* check_usage just grew the cache.
C20_Witness ==
    /\ ret.op = "check_usage"
    /\ ret.grew
    /\ cache.size = 1400
    /\ cache.color_atlas.width = 1400

====
